---- MODULE Spec2Model ----
(***************************************************************************)
(* A model of the verilation runtime of marlin.                            *)
(*                                                                         *)
(*   Spec     the runtime: VerilatorRuntime::new, create_model and the     *)
(*            build driver (DPI stage, change detection, shim generation,  *)
(*            simulator invocation, library load, library cache) over one  *)
(*            artifact directory that outlives the runtimes using it.      *)
(*   SpecDyn  one model of an HDL module, dynamic (pin, read and eval with *)
(*            their run-time checks) or static (port fields, eval, wide    *)
(*            output slots).                                               *)
(*   SpecDpi  the DPI bridge of one library: trampolines, slots and the    *)
(*            initializer that fills them.                                 *)
(*   SpecSearch  the upward search for the project file of the Spade and   *)
(*            Veryl front ends.                                            *)
(***************************************************************************)
EXTENDS Integers, Sequences, FiniteSets, TLC

VARIABLES
    runtime,    \* the live VerilatorRuntime: options, dpi_functions, source_files, libraries
    fs,         \* the artifact directory <artifact_directory>/<name>/ on disk
    mtime,      \* last-modified time of every HDL source file
    now,        \* the file system clock
    last,       \* what the last operation on the runtime did, and what it returned
    loadedOk,   \* history: the cache keys whose build and load succeeded in this runtime
    dyn,        \* the dynamic model: name, ports, library symbols, simulator port values
    dlast,      \* what the last operation on the dynamic model did, and what it returned
    stat,       \* the static model: port fields of the host object, simulator port values
    slast,      \* what the last operation on the static model did, and what it returned
    bridge,     \* the DPI bridge: the runtime's DPI list, the trampolines, their slots
    search      \* one upward search for a project file: the function, the files on disk, the path

vars == <<runtime, fs, mtime, now, last, loadedOk, dyn, dlast, stat, slast, bridge,
         search>>
rtvars == <<runtime, fs, mtime, now, last, loadedOk>>
stvars == <<stat, slast>>
modelvars == <<dyn, dlast, stat, slast>>

----------------------------------------------------------------------------
(* Bounds *)

MaxTime == 1
MaxWords == 4
MaxDpi == 3
MaxDepth == 2

----------------------------------------------------------------------------
(* Paths.  A path is a sequence of components; an absolute path starts     *)
(* with the component "/".                                                 *)

\* Option and Result values: Some(x) is <<x>>, None is <<>>
Some(x) == <<x>>
None == <<>>
IsSome(o) == o # <<>>
Unwrap(o) == o[1]

Cwd == <<"/", "w">>

P_main == <<"src", "main.sv">>
P_main_dot == <<".", "src", "main.sv">>
P_aux == <<"src", "aux.sv">>
P_unreg == <<"src", "unreg.sv">>
P_gone == <<"src", "gone.sv">>

\* the regular files of the project directory, by canonical path
Files == { Cwd \o P_main, Cwd \o P_aux, Cwd \o P_unreg }

RECURSIVE DropDots(_)
DropDots(p) ==
    IF p = <<>> THEN <<>>
    ELSE IF Head(p) = "." THEN DropDots(Tail(p))
    ELSE <<Head(p)>> \o DropDots(Tail(p))

\* Utf8Path::canonicalize_utf8: absolute and normalised, or an error (None)
\* when no such file exists
CanonicalizeUtf8(p) ==
    LET abs == IF p # <<>> /\ Head(p) = "/" THEN p ELSE Cwd \o p
        norm == DropDots(abs)
    IN  IF norm \in Files THEN Some(norm) ELSE None

\* canonicalize_utf8 on the paths the model uses, evaluated once
Paths == { P_main, P_main_dot, P_aux, P_unreg, P_gone }
CanonTable == [p \in Paths |-> CanonicalizeUtf8(p)]
Canonicalize(p) == CanonTable[p]

\* Utf8Path::is_file
IsFile(p) == IsSome(Canonicalize(p))

----------------------------------------------------------------------------
(* Module descriptors: what a type M: VerilatedModel declares.             *)

N_main == <<"m", "a", "i", "n">>
N_space == <<"m", " ", "n">>
N_esc == <<"\\", "m">>

Port(n, msb, lsb, d) == [name |-> n, msb |-> msb, lsb |-> lsb, dir |-> d]

PL_small == << Port("a", 7, 0, "Input"), Port("q", 7, 0, "Output") >>
PL_wide == << Port("a", 7, 0, "Input"), Port("w", 64, 0, "Output") >>
PL_rev2 == << Port("a", 0, 2, "Input") >>

\* the types M a caller hands to create_model: (name, source_path, ports)
Model(n, p, ports) == [name |-> n, path |-> p, ports |-> ports]
Models ==
    { Model(N_main, P_main, PL_small), Model(N_main, P_main_dot, PL_small),
      Model(N_main, P_main, PL_wide), Model(N_main, P_main_dot, PL_rev2),
      Model(N_space, P_main, PL_small), Model(N_esc, P_main, PL_small),
      Model(N_esc, P_gone, PL_rev2),
      Model(N_main, P_unreg, PL_small), Model(N_main, P_gone, PL_small) }

\* usize arithmetic wraps modulo 2^64 when overflow checks are off.  TLC's
\* integers are 32 bits wide, so the model wraps modulo 2^30, which compares
\* with 64 exactly as 2^64 does for every msb, lsb below 2^29.
UsizeMod == 2^30

\* msb - lsb + 1 as the build computes it without overflow checks
PortWidth(msb, lsb) == (((msb - lsb) % UsizeMod) + 1) % UsizeMod

\* msb - lsb underflows: a build with overflow checks panics here
WidthOverflows(msb, lsb) == msb < lsb

----------------------------------------------------------------------------
(* Text.  A text is a sequence of pieces; format! concatenates pieces.     *)

RECURSIVE Join(_, _)
Join(texts, sep) ==
    IF texts = <<>> THEN <<>>
    ELSE IF Len(texts) = 1 THEN <<Head(texts)>>
    ELSE <<Head(texts), sep>> \o Join(Tail(texts), sep)

\* DpiFunction(c_name, c_function_code, rust_function_code)
DpiFunction(n, c, r) == [c_name |-> n, c_code |-> c, rust_code |-> r]

\* F_three_c differs from F_three in its C wrapper only
F_three == DpiFunction("three", "c_three", "rs_three")
F_three_c == DpiFunction("three", "c_three_v2", "rs_three")
F_four == DpiFunction("four", "c_four", "rs_four")

\* the text of dpi.rs: the host-side code of every DPI function (lib.rs 246-251)
RustFileCode(dpi_functions) ==
    Join([i \in 1..Len(dpi_functions) |-> dpi_functions[i].rust_code], "\n")

\* the text of wrappers.c (lib.rs 253-261)
CFileCode(dpi_functions) ==
    <<"#include">>
        \o Join([i \in 1..Len(dpi_functions) |-> dpi_functions[i].c_code], "\n")

----------------------------------------------------------------------------
(* Runtime options *)

\* VerilatorRuntimeOptions (lib.rs 75-96) and the defines of the spec
RuntimeOptions(force, opt, defines) ==
    [force_verilator_rebuild |-> force, verilator_optimization |-> opt,
     defines |-> defines]

DefaultOptions == RuntimeOptions(FALSE, None, <<>>)

\* the runtimes a caller constructs: (dpi_functions, options)
Config(dpi_functions, options) == [dpi |-> dpi_functions, options |-> options]
Configs ==
    { Config(<<F_three>>, DefaultOptions),
      Config(<<F_three>>, RuntimeOptions(TRUE, Some(3), <<>>)),
      Config(<<F_three>>, RuntimeOptions(FALSE, Some(4), <<>>)),
      Config(<<F_three>>, RuntimeOptions(FALSE, None, <<"INVERT_OUTPUT">>)),
      Config(<<F_three_c>>, DefaultOptions),
      Config(<<F_three, F_four>>, DefaultOptions) }

----------------------------------------------------------------------------
(* The artifact directory <artifact_directory>/<name>/ of module "main".   *)
(*   dirs       which of ".", "ffi", "dpi" exist                           *)
(*   dpi_rs     dpi/dpi.rs: None or Some(text)                             *)
(*   wrappers_c dpi/wrappers.c: None or Some(text)                         *)
(*   dpi_o      dpi/dpi.o: None or Some(text of the dpi.rs it came from)   *)
(*   ffi_cpp    ffi/ffi.cpp: None or Some(port list it was generated for)  *)
(*   obj_dir    whether obj_dir/ exists                                    *)
(*   obj_files  the modification times of the regular files in obj_dir/;  *)
(*              a run of the simulator rewrites them, and only the newest  *)
(*              time is ever read                                          *)
(*   lib        obj_dir/libV<name>_dyn.so: None or Some(what the simulator *)
(*              built it from: the shim's ports and the preprocessor       *)
(*              defines)                                                   *)

EmptyArtifacts ==
    [dirs |-> {}, dpi_rs |-> None, wrappers_c |-> None, dpi_o |-> None,
     ffi_cpp |-> None, obj_dir |-> FALSE, obj_files |-> {}, lib |-> None]

Max(S) == CHOOSE x \in S : \A y \in S : y <= x

\* the modification time of a registered source file, given by the path the
\* runtime stores
ModifiedOf(source_file, mt) == mt[Unwrap(Canonicalize(source_file))]

----------------------------------------------------------------------------
(* build_dpi_if_needed (lib.rs 234-315).  rustcOk: whether rustc succeeds. *)

DpiUnchanged(stored, current_file_code) ==
    IsSome(stored) /\ Unwrap(stored) = current_file_code

BuildDpiIfNeeded(dpi_functions, f, rustcOk) ==
    LET current_file_code == RustFileCode(dpi_functions)
        c_file_code == CFileCode(dpi_functions)
        written == [f EXCEPT !.wrappers_c = Some(c_file_code),
                             !.dpi_rs = Some(current_file_code)]
    IN  IF DpiUnchanged(f.dpi_rs, current_file_code)
        THEN [ok |-> TRUE, rebuilt |-> FALSE, ran |-> FALSE, fs |-> f]
        ELSE IF ~rustcOk
        THEN [ok |-> FALSE, rebuilt |-> FALSE, ran |-> TRUE, fs |-> written]
        ELSE [ok |-> TRUE, rebuilt |-> TRUE, ran |-> TRUE,
              fs |-> [written EXCEPT !.dpi_o = Some(current_file_code)]]

----------------------------------------------------------------------------
(* build_ffi (lib.rs 317-425) *)

\* the symbol names the shim defines; top is a sequence of characters
SymNew(top) == <<"ffi_new_V">> \o top
SymEval(top) == <<"ffi_V">> \o top \o <<"_eval">>
SymDelete(top) == <<"ffi_delete_V">> \o top
SymPin(top, port) == <<"ffi_V">> \o top \o <<"_pin_", port>>
SymRead(top, port) == <<"ffi_V">> \o top \o <<"_read_", port>>

\* the names the bindings resolve (ffi_names.rs 22-40)
new_top(top_module) == <<" ffi_new_V">> \o top_module
top_eval(top_module) == <<"ffi_V">> \o top_module \o <<"_eval">>
delete_top(top_module) == <<"ffi_delete_V">> \o top_module
pin_port(top_module, port) == <<"ffi_V">> \o top_module \o <<"_pin_", port>>
read_port(top_module, port) == <<"ffi_V">> \o top_module \o <<"_read_", port>>

\* the names the dynamic model formats in read_value! and pin_value!
\* (dynamic.rs 205, 281)
ReadValueSymbol(name, port) == <<"ffi_V">> \o name \o <<"_read_", port>>
PinValueSymbol(name, port) == <<"ffi_V">> \o name \o <<"_pin_", port>>

\* a shim that writes both accessors for every port
PortSymbolsBoth(top, port) ==
    { SymPin(top, port.name), SymRead(top, port.name) }

\* the accessors written for one port (lib.rs 391-415)
PortSymbols(top, port) ==
    (IF port.dir \in {"Input", "Inout"} THEN { SymPin(top, port.name) } ELSE {})
    \cup
    (IF port.dir \in {"Output", "Inout"} THEN { SymRead(top, port.name) } ELSE {})

ShimSymbols(top, ports) ==
    { SymNew(top), SymEval(top), SymDelete(top) }
    \cup UNION { PortSymbols(top, ports[i]) : i \in 1..Len(ports) }

\* the class build_ffi gives a port of the given width: the width check
\* (lib.rs 350-356) comes before the choice of the macro suffix
\* (lib.rs 363-373)
ShimClass(width) ==
    IF width > 64 THEN "Err"
    ELSE IF width <= 8 THEN "C"
    ELSE IF width <= 16 THEN "S"
    ELSE IF width <= 32 THEN "I"
    ELSE IF width <= 64 THEN "Q"
    ELSE "W"

\* the width check of the port loop (lib.rs 348-356), port by port.  With
\* overflow checks (checked) msb - lsb panics when msb < lsb.
RECURSIVE BuildFfiPorts(_, _)
BuildFfiPorts(ports, checked) ==
    IF ports = <<>> THEN "Ok"
    ELSE LET p == Head(ports)
         IN  IF checked /\ WidthOverflows(p.msb, p.lsb) THEN "Panic"
             ELSE IF ShimClass(PortWidth(p.msb, p.lsb)) = "Err" THEN "Err"
             ELSE BuildFfiPorts(Tail(ports), checked)

BuildFfi(f, ports, checked) ==
    LET r == BuildFfiPorts(ports, checked)
    IN  [result |-> r,
         fs |-> IF r = "Ok" THEN [f EXCEPT !.ffi_cpp = Some(ports)] ELSE f]

----------------------------------------------------------------------------
(* needs_verilator_rebuild (lib.rs 427-473) *)

\* a change detection that also fires on equal modification times
NeedsVerilatorRebuildGe(source_files, f, mt) ==
    IF ~f.obj_dir THEN TRUE
    ELSE IF f.obj_files = {} THEN FALSE
    ELSE \E i \in 1..Len(source_files) :
            ModifiedOf(source_files[i], mt) >= Max(f.obj_files)

NeedsVerilatorRebuild(source_files, f, mt) ==
    IF ~f.obj_dir THEN TRUE
    ELSE IF f.obj_files = {} THEN FALSE
    ELSE \E i \in 1..Len(source_files) :
            ModifiedOf(source_files[i], mt) > Max(f.obj_files)

----------------------------------------------------------------------------
(* The external simulator (the verilator command of lib.rs 528-551).       *)
(* outcome: "ok"        exit status 0: obj_dir/ holds fresh files and the  *)
(*                      shared library built from the current shim and     *)
(*                      defines                                             *)
(*          "exec_fail" the executable could not be run: nothing changes   *)
(*          "exit_fail" non-zero exit before any output file was written;  *)
(*                      the simulator has created obj_dir/                  *)
(*          "exit_part" non-zero exit after some output files were written *)

\* the preprocessor defines handed to the simulator
SimulatorDefines(options) == options.defines

Verilate(f, options, outcome, t) ==
    CASE outcome = "ok" ->
            [f EXCEPT !.obj_dir = TRUE,
                      !.obj_files = {t},
                      !.lib = Some([ports |-> Unwrap(f.ffi_cpp),
                                    defines |-> SimulatorDefines(options)])]
      [] outcome = "exec_fail" -> f
      [] outcome = "exit_fail" -> [f EXCEPT !.obj_dir = TRUE]
      [] outcome = "exit_part" ->
            [f EXCEPT !.obj_dir = TRUE, !.obj_files = {t}]

----------------------------------------------------------------------------
(* build (lib.rs 475-563).  env: rustcOk, checked (overflow checks on),    *)
(* sim (the simulator's outcome).  The result names the step reached.      *)

\* the condition of lib.rs 510-517 under which the simulator is skipped
SkipsVerilator(options, needs_rebuild, dpi_rebuilt) ==
    ~options.force_verilator_rebuild /\ (~needs_rebuild /\ ~dpi_rebuilt)

\* lib.rs 539-545
OptimizationValid(options) ==
    options.verilator_optimization = None
        \/ Unwrap(options.verilator_optimization) \in 0..3

Build(source_files, dpi_functions, ports, f0, options, mt, t, env) ==
    LET f1 == [f0 EXCEPT !.dirs = @ \cup {"ffi", "dpi"}]
        dpi == BuildDpiIfNeeded(dpi_functions, f1, env.rustcOk)
        needs == NeedsVerilatorRebuild(source_files, dpi.fs, mt)
        ffi == BuildFfi(dpi.fs, ports, env.checked)
        base == [result |-> "Err", stage |-> "dpi", fs |-> dpi.fs,
                 dpiRan |-> dpi.ran, dpiRebuilt |-> dpi.rebuilt,
                 shim |-> FALSE, sim |-> FALSE]
    IN  IF ~dpi.ok THEN base
        ELSE IF SkipsVerilator(options, needs, dpi.rebuilt)
        THEN [base EXCEPT !.result = "Ok", !.stage = "skip"]
        ELSE IF ffi.result # "Ok"
        THEN [base EXCEPT !.result = ffi.result, !.stage = "ffi"]
        ELSE IF ~OptimizationValid(options)
        THEN [base EXCEPT !.stage = "opt", !.fs = ffi.fs, !.shim = TRUE]
        ELSE [base EXCEPT
                !.result = IF env.sim = "ok" THEN "Ok" ELSE "Err",
                !.stage = IF env.sim = "ok" THEN "built" ELSE "sim",
                !.fs = Verilate(ffi.fs, options, env.sim, t),
                !.shim = TRUE, !.sim = TRUE]

----------------------------------------------------------------------------
(* Dynamic models (dynamic.rs) *)

\* VerilatorValue (dynamic.rs 20-28): a tag and the words it carries, one
\* word for the scalar variants, none for NotDriven
Value(tag, words) == [tag |-> tag, v |-> words]
NotDriven == Value("NotDriven", <<>>)

ScalarTags == { "CData", "SData", "IData", "QData" }
WordVals == { 0, 1 }
\* the word slices a caller uses: of every length up to MaxWords, all words
\* 1, and all words 2 but the most significant, which is 1
WordSeqs ==
    UNION { { [i \in 1..n |-> 1], [i \in 1..n |-> IF i = n THEN 1 ELSE 2] } :
                n \in 0..MaxWords }

\* the values a caller hands to pin
PinValues ==
    { NotDriven, Value("CData", <<0>>) }
    \cup { Value(t, <<1>>) : t \in ScalarTags }
    \cup { Value("WDataInP", w) : w \in WordSeqs }
    \cup { Value("WDataOutP", [i \in 1..n |-> 1]) : n \in {0, MaxWords} }

\* the number of bits a slice of n words holds
compute_approx_width_from_wdata_word_count(n) == n * 32

\* VerilatorValue::width (dynamic.rs 30-47)
Width(value) ==
    CASE value.tag = "NotDriven" -> 0
      [] value.tag = "CData" -> 8
      [] value.tag = "SData" -> 16
      [] value.tag = "IData" -> 32
      [] value.tag = "QData" -> 64
      [] OTHER -> compute_approx_width_from_wdata_word_count(Len(value.v))

\* words are 32 bits: width.div_ceil(WData::BITS) (dynamic.rs 236)
WordCount(width) == (width + 31) \div 32

\* the transport class of a port of the given width, as read dispatches
\* (dynamic.rs 220-228)
ClassOf(width) ==
    IF width <= 8 THEN "CData"
    ELSE IF width <= 16 THEN "SData"
    ELSE IF width <= 32 THEN "IData"
    ELSE IF width <= 64 THEN "QData"
    ELSE "WDataOutP"

\* the HDL modules a model is made for: the declared ports, for every
\* output the input it is wired to, and the clock input of a registered
\* module ("" for a combinational one)
RegisteredModule(ports, wire, clk) == [ports |-> ports, wire |-> wire, clk |-> clk]
Module(ports, wire) == RegisteredModule(ports, wire, "")

DM_small ==
    Module(<< Port("a", 7, 0, "Input"), Port("b", 8, 0, "Input"),
              Port("h", 31, 16, "Inout"), Port("q", 7, 0, "Output") >>,
           [q \in {"q"} |-> "a"])
DM_medium ==
    Module(<< Port("a", 16, 0, "Input"), Port("b", 32, 0, "Inout"),
              Port("h", 63, 0, "Input"), Port("q", 63, 0, "Output") >>,
           [q \in {"q"} |-> "h"])
DM_wide ==
    Module(<< Port("a", 64, 0, "Input"), Port("q", 64, 0, "Output") >>,
           [q \in {"q"} |-> "a"])
DM_wide4 ==
    Module(<< Port("h", 255, 128, "Inout"), Port("q", 255, 128, "Output") >>,
           [q \in {"q"} |-> "h"])
\* a registered passthrough: q takes the value of a at the rising edge of
\* clk (very_wide_support.rs 97-160)
DM_registered ==
    RegisteredModule(<< Port("b", 0, 0, "Input"), Port("a", 64, 0, "Input"),
                        Port("q", 64, 0, "Output") >>,
                     [q \in {"q"} |-> "a"], "b")
DynModules == { DM_small, DM_medium, DM_wide, DM_wide4, DM_registered }

\* the port names a caller uses; "zz" is declared by no module
PortNames == { "a", "b", "h", "q", "zz" }

ZeroOf(width) == IF width > 64 THEN [i \in 1..WordCount(width) |-> 0] ELSE 0

\* a simulator instance (what ffi_new_V<top> returns): the value of every
\* port, the clock input and the clock level seen by the last eval
Simulator(clk, port) == [port |-> port, clk |-> clk, clkSeen |-> 0]

\* an eval that drives the outputs whatever the clock does
SimEvalUnclocked(sim, wire) ==
    [sim EXCEPT
        !.port = [n \in DOMAIN sim.port |->
                    IF n \in DOMAIN wire THEN sim.port[wire[n]] ELSE sim.port[n]],
        !.clkSeen = IF sim.clk = "" THEN 0 ELSE sim.port[sim.clk]]

\* the simulator's eval (top->eval()): a combinational module drives every
\* output from the input it is wired to; a registered one does so at a
\* rising edge of its clock
SimEval(sim, wire) ==
    LET rising == sim.clk = "" \/ (sim.clkSeen = 0 /\ sim.port[sim.clk] = 1)
    IN  [sim EXCEPT
            !.port = [n \in DOMAIN sim.port |->
                        IF rising /\ n \in DOMAIN wire THEN sim.port[wire[n]]
                        ELSE sim.port[n]],
            !.clkSeen = IF sim.clk = "" THEN 0 ELSE sim.port[sim.clk]]

\* create_dyn_model: the port table (width = msb + 1 - lsb), the library
\* built from the shim of the declared ports, a fresh simulator instance
CreateDynModel(name, mod) ==
    LET names == { mod.ports[i].name : i \in 1..Len(mod.ports) }
        portOf(n) == CHOOSE i \in 1..Len(mod.ports) : mod.ports[i].name = n
        info == [n \in names |->
                    [width |-> mod.ports[portOf(n)].msb + 1 - mod.ports[portOf(n)].lsb,
                     direction |-> mod.ports[portOf(n)].dir]]
    IN  [name |-> name,
         ports |-> info,
         symbols |-> ShimSymbols(name, mod.ports),
         wire |-> mod.wire,
         sim |-> Simulator(mod.clk, [n \in names |-> ZeroOf(info[n].width)]),
         evald |-> FALSE]

NoDyn == [name |-> <<>>, ports |-> <<>>, symbols |-> {}, wire |-> <<>>,
          sim |-> Simulator("", <<>>), evald |-> FALSE]
NoDynOp == [op |-> "none", port |-> "", value |-> NotDriven, result |-> "none",
            called |-> FALSE, prev |-> None, out |-> NotDriven]

\* usize::MAX
UsizeMax == UsizeMod - 1

\* a pin that lets a value of any class through to a port of up to 64 bits
PinHighLoose(tag) == IF tag = "WDataInP" THEN UsizeMax ELSE 64

\* the upper end of the width range of each arm of pin (dynamic.rs 336-358)
PinHigh(tag) ==
    CASE tag = "CData" -> 8
      [] tag = "SData" -> 16
      [] tag = "IData" -> 32
      [] tag = "QData" -> 64
      [] tag = "WDataInP" -> UsizeMax

\* the checks of pin_value! (dynamic.rs 275-329), in the order the macro
\* makes them: the result of the pin before the setter is called
PinCheck(d, port, value) ==
    IF PinValueSymbol(d.name, port) \notin d.symbols THEN "NoSuchPort"
    ELSE IF port \notin DOMAIN d.ports THEN "NoSuchPort"
    ELSE IF d.ports[port].width > PinHigh(value.tag) THEN "InvalidPortWidth"
    ELSE IF d.ports[port].direction \notin {"Input", "Inout"}
    THEN "InvalidPortDirection"
    ELSE "Ok"

\* a pin that checks only that the port is declared
PinResultUnchecked(d, port, value) ==
    IF value.tag \in {"NotDriven", "WDataOutP"} THEN "Panic"
    ELSE IF port \in DOMAIN d.ports THEN "Ok"
    ELSE "NoSuchPort"

\* DynamicVerilatedModel::pin as a whole (dynamic.rs 270-363): NotDriven
\* and WDataOutP panic, the other variants go through pin_value!
PinResult(d, port, value) ==
    IF value.tag = "NotDriven" THEN "Panic"
    ELSE IF value.tag = "WDataOutP" THEN "Panic"
    ELSE PinCheck(d, port, value)

\* what the setter of the shim stores in a port of the given width when it
\* is handed the value.  A scalar port takes the scalar; handed a slice it
\* takes bits of the slice's address.  A wide port copies WordCount(width)
\* words from the slice; the words past the end of a short slice can be
\* anything (one filler word stands for them).
Stored(width, value) ==
    IF width <= 64
    THEN IF value.tag = "WDataInP" THEN WordVals ELSE { value.v[1] }
    ELSE IF value.tag # "WDataInP" THEN { [i \in 1..WordCount(width) |-> w] : w \in WordVals }
    ELSE { [i \in 1..WordCount(width) |->
                IF i <= Len(value.v) THEN value.v[i] ELSE w] : w \in WordVals }

\* the checks of read (dynamic.rs 176-218)
ReadResult(d, port) ==
    IF port \notin DOMAIN d.ports THEN "NoSuchPort"
    ELSE IF d.ports[port].direction \notin {"Output", "Inout"}
    THEN "InvalidPortDirection"
    ELSE IF ReadValueSymbol(d.name, port) \notin d.symbols THEN "NoSuchPort"
    ELSE "Ok"

\* what the getter of the shim returns for a port of the given width: the
\* port's value for a scalar port (lib.rs 409-411), a pointer to the port's
\* words for a wide port (the data() of a VlWide, dynamic.rs 242-249);
\* Some(words) is a pointer to words, None the null pointer
Getter(width, stored) == IF width <= 64 THEN stored ELSE Some(stored)

\* a read that takes width / 32 words, rounded down
ReadValueFloor(width, raw) ==
    IF width <= 64 THEN Value(ClassOf(width), <<raw>>)
    ELSE IF raw = None THEN NotDriven
    ELSE Value("WDataOutP", SubSeq(Unwrap(raw), 1, width \div 32))

\* a read that takes never-driven (all zero) words for the null pointer
ReadValueSentinel(width, raw) ==
    IF width <= 64 THEN Value(ClassOf(width), <<raw>>)
    ELSE IF raw = None \/ \A i \in 1..Len(Unwrap(raw)) : Unwrap(raw)[i] = 0
    THEN NotDriven
    ELSE Value("WDataOutP", SubSeq(Unwrap(raw), 1, WordCount(width)))

\* the value read wraps what the getter returns (dynamic.rs 220-267): for a
\* wide port NotDriven for the null pointer, else the first
\* width.div_ceil(32) words behind the pointer
ReadValue(width, raw) ==
    IF width <= 64 THEN Value(ClassOf(width), <<raw>>)
    ELSE IF raw = None THEN NotDriven
    ELSE Value("WDataOutP", SubSeq(Unwrap(raw), 1, WordCount(width)))

----------------------------------------------------------------------------
(* Static models: a host object with one field per port.  An input field   *)
(* is assigned by the caller; eval hands the input fields to the           *)
(* simulator, runs it and copies the outputs into the output fields.  The  *)
(* field of a wide output is a WideOut slot.                               *)

SM_main ==
    Module(<< Port("a", 31, 0, "Input"), Port("q", 31, 0, "Output") >>,
           [q \in {"q"} |-> "a"])
SM_wide ==
    Module(<< Port("a", 64, 0, "Input"), Port("q", 64, 0, "Output") >>,
           [q \in {"q"} |-> "a"])
SM_wide4 ==
    Module(<< Port("a", 255, 128, "Input"), Port("q", 255, 128, "Output") >>,
           [q \in {"q"} |-> "a"])
StaticModules == { SM_main, SM_wide, SM_wide4, DM_registered }

\* create_model_simple::<M>: the port fields start at zero, the simulator
\* instance is fresh, no eval has run
CreateStatic(name, mod) ==
    LET names == { mod.ports[i].name : i \in 1..Len(mod.ports) }
        portOf(n) == CHOOSE i \in 1..Len(mod.ports) : mod.ports[i].name = n
        info == [n \in names |->
                    [width |-> mod.ports[portOf(n)].msb + 1 - mod.ports[portOf(n)].lsb,
                     direction |-> mod.ports[portOf(n)].dir]]
        zero == [n \in names |-> ZeroOf(info[n].width)]
    IN  [name |-> name, ports |-> info, wire |-> mod.wire,
         field |-> zero, sim |-> Simulator(mod.clk, zero), evald |-> FALSE]

NoStat == [name |-> <<>>, ports |-> <<>>, wire |-> <<>>, field |-> <<>>,
           sim |-> Simulator("", <<>>), evald |-> FALSE]
NoStatOp == [op |-> "none", port |-> "", result |-> "none", out |-> None,
             conv |-> NotDriven]

\* the values the type of a port field admits: a scalar of the port's class,
\* or WideIn of exactly WordCount(width) words
FieldValues(width) ==
    IF width <= 64 THEN {0, 1}
    ELSE { w \in WordSeqs : Len(w) = WordCount(width) }

\* an eval that leaves the wide output slots marked as they were
StaticEvalOfUnmarked(m) ==
    LET pinned == [m.sim EXCEPT
                    !.port = [n \in DOMAIN m.sim.port |->
                                IF m.ports[n].direction = "Input"
                                THEN m.field[n] ELSE m.sim.port[n]]]
        after == SimEval(pinned, m.wire)
    IN  [m EXCEPT !.sim = after,
                  !.field = [n \in DOMAIN m.field |->
                                IF m.ports[n].direction = "Output"
                                THEN after.port[n] ELSE m.field[n]]]

\* the generated eval of a static model: pin every input field, run the
\* simulator, read every output into its field
StaticEvalOf(m) ==
    LET pinned == [m.sim EXCEPT
                    !.port = [n \in DOMAIN m.sim.port |->
                                IF m.ports[n].direction = "Input"
                                THEN m.field[n] ELSE m.sim.port[n]]]
        after == SimEval(pinned, m.wire)
    IN  [m EXCEPT !.sim = after,
                  !.field = [n \in DOMAIN m.field |->
                                IF m.ports[n].direction = "Output"
                                THEN after.port[n] ELSE m.field[n]],
                  !.evald = TRUE]

\* WideOut::value: the words of the slot
WideOutValue(inner) == inner

\* WideOut::is_initialized: whether an eval has filled the slots of model m
is_initialized(m) == m.evald

\* impl From<WideOut<LENGTH>> for VerilatorValue (dynamic.rs 94-98)
FromWideOut(inner) == Value("WDataOutP", inner)

----------------------------------------------------------------------------
(* VerilatorRuntime (lib.rs 110-225) *)

\* a check of the name that lets a backslash through
NameInvalidSpaceOnly(name) == \E i \in 1..Len(name) : name[i] = " "

\* lib.rs 159
NameInvalid(name) == \E i \in 1..Len(name) : name[i] = "\\" \/ name[i] = " "

\* a check that compares the paths as they are spelled
SourceRegisteredAsSpelled(source_files, path) ==
    \E i \in 1..Len(source_files) : source_files[i] = path

\* lib.rs 166-174
SourceRegistered(source_files, path) ==
    \E i \in 1..Len(source_files) :
        LET lhs == Canonicalize(source_files[i])
            rhs == Canonicalize(path)
        IN  IsSome(lhs) /\ IsSome(rhs) /\ lhs = rhs

\* the key of the library cache (lib.rs 180 and 220)
CacheKey(name, path) == <<name, path>>

\* a runtime that never consults its cache
EntryVacantAlways(libraries, key) == TRUE

\* lib.rs 178: the entry is vacant
EntryVacant(libraries, key) == key \notin DOMAIN libraries

\* the library handle Library::new returns for the file on disk
LoadLibrary(libraries, f) ==
    [id |-> Cardinality(DOMAIN libraries) + 1, image |-> Unwrap(f.lib)]

\* a runtime that caches whatever library file is on disk, build error or not
InsertsEvenOnError(result, f) == IsSome(f.lib)

\* lib.rs 199-215: the library is loaded and inserted only when build
\* returned Ok and the file it names can be loaded
Inserts(result, f) == result = "Ok" /\ IsSome(f.lib)

\* The record of the last operation.  For a create_model that got past
\* validation it keeps the cache key, whether an earlier create_model for the
\* key had succeeded (wasLoaded), what the call found on disk (objAbsent:
\* no obj_dir/; srcNewer: a registered source newer than the newest regular
\* file of obj_dir/), the steps it ran and what it returned.
Idle(op, result) ==
    [op |-> op, key |-> <<>>, result |-> result, stage |-> "none",
     hit |-> FALSE, wasLoaded |-> FALSE, objAbsent |-> FALSE,
     srcNewer |-> FALSE, dpiRan |-> FALSE, dpiRebuilt |-> FALSE,
     shim |-> FALSE, sim |-> FALSE, simOk |-> FALSE, loaded |-> FALSE,
     fsChanged |-> FALSE, lib |-> None]

\* some registered source is newer than every regular file of obj_dir/
SourceNewer(source_files, f, mt) ==
    /\ f.obj_files # {}
    /\ \E i \in 1..Len(source_files) :
          \A t \in f.obj_files :
              mt[Unwrap(Canonicalize(source_files[i]))] > t

----------------------------------------------------------------------------
(* The upward search for the project file: search_for_swim_toml of the     *)
(* Spade runtime (spade/src/lib.rs 10-18) and of the Spade macro           *)
(* (spade-macro/src/lib.rs 21-29), search_for_veryl_toml of the Veryl      *)
(* macro (veryl-macro/src/lib.rs 15-23).  A path is absolute or relative   *)
(* and has a sequence of components: "/" is the absolute path without      *)
(* components, the empty string the relative one.                          *)

Path(abs, comps) == [abs |-> abs, comps |-> comps]
RootPath == Path(TRUE, <<>>)
EmptyPath == Path(FALSE, <<>>)

\* Utf8Path::as_str().is_empty()
is_empty(path) == path = EmptyPath

\* Utf8Path::parent: None for "/" and for the empty path
parent(path) ==
    IF path.comps = <<>> THEN None
    ELSE Some(Path(path.abs, SubSeq(path.comps, 1, Len(path.comps) - 1)))

\* Utf8PathBuf::pop: truncates to the parent; does nothing when there is none
pop(path) == IF IsSome(parent(path)) THEN Unwrap(parent(path)) ELSE path

\* Utf8Path::join with a file name
join(path, file) == Path(path.abs, Append(path.comps, file))

\* Utf8Path::is_file
is_file(files, path) == path \in files

SearchFns == {"spade::search_for_swim_toml", "spade_macro::search_for_swim_toml",
              "veryl_macro::search_for_veryl_toml"}

\* the file each function looks for
ProjectFile(fn) ==
    IF fn = "veryl_macro::search_for_veryl_toml" THEN "Veryl.toml" ELSE "swim.toml"

\* the loop condition: the Spade macro goes on while the path has a parent
\* (spade-macro/src/lib.rs 22), the other two while the path is not the
\* empty string (spade/src/lib.rs 11, veryl-macro/src/lib.rs 16)
LoopContinues(fn, start) ==
    IF fn = "spade_macro::search_for_swim_toml"
    THEN IsSome(parent(start))
    ELSE ~is_empty(start)

NoSearch == [pc |-> "idle", fn |-> "", files |-> {}, from |-> EmptyPath,
             start |-> EmptyPath, result |-> None]

DirNames == {"a", "b"}
RECURSIVE CompsUpTo(_)
CompsUpTo(n) ==
    IF n = 0 THEN { <<>> }
    ELSE CompsUpTo(n - 1)
         \cup { Append(c, d) : c \in { x \in CompsUpTo(n - 1) : Len(x) = n - 1 },
                               d \in DirNames }
Directories == { Path(abs, c) : abs \in BOOLEAN, c \in CompsUpTo(MaxDepth) }

\* the sets of directories that hold a project file
ProjectDirs ==
    { {}, { RootPath }, { Path(TRUE, <<"a">>) },
      { Path(TRUE, <<"a">>), Path(TRUE, <<"a", "b">>) },
      { Path(FALSE, <<"b">>) } }

\* the call: the function, the files on disk, the start directory
SearchCall(fn, dirs, start) ==
    /\ search.pc = "idle"
    /\ search' = [pc |-> "loop", fn |-> fn,
                  files |-> { join(d, ProjectFile(fn)) : d \in dirs },
                  from |-> start, start |-> start, result |-> None]
    /\ UNCHANGED <<rtvars, modelvars, bridge>>

\* one turn of the loop: the test of the condition, then the body
SearchStep ==
    /\ search.pc = "loop"
    /\ search' =
          IF ~LoopContinues(search.fn, search.start)
          THEN [search EXCEPT !.pc = "done", !.result = None]
          ELSE IF is_file(search.files, join(search.start, ProjectFile(search.fn)))
          THEN [search EXCEPT !.pc = "done",
                              !.result = Some(join(search.start, ProjectFile(search.fn)))]
          ELSE [search EXCEPT !.start = pop(search.start)]
    /\ UNCHANGED <<rtvars, modelvars, bridge>>

----------------------------------------------------------------------------
(* The DPI bridge.  A DPI function of the runtime is an object with a name *)
(* and a pointer to the host function (dpi.rs 9-22).                       *)

DpiObject(name, pointer) == [name |-> name, pointer |-> pointer]

\* the functions of dpi_tutorial.rs 24-37
D_three == DpiObject("three", "fn three")
D_check_three == DpiObject("check_three", "fn check_three")
D_Bool == DpiObject("Bool", "fn Bool")
DpiObjects == { D_three, D_check_three, D_Bool }

\* the DPI lists a runtime is constructed with
DpiLists == UNION { [1..n -> DpiObjects] : n \in 0..MaxDpi }

\* a slot that no pointer was copied into
NullPointer == "null"

\* the generated trampoline file: one trampoline per function of the list,
\* in list order, with the HDL-visible name; trampoline i forwards through
\* slot i
Trampolines(dpi_functions) ==
    [i \in 1..Len(dpi_functions) |-> [name |-> dpi_functions[i].name, slot |-> i]]

\* the C compiler refuses a file that defines one name twice
TrampolinesCompile(trampolines) ==
    \A i, j \in 1..Len(trampolines) :
        trampolines[i].name = trampolines[j].name => i = j

\* pointers handed over in the reverse of the registration order
PointersReversed(dpi_functions) ==
    [i \in 1..Len(dpi_functions) |->
        dpi_functions[Len(dpi_functions) + 1 - i].pointer]

\* the contiguous array of the functions' pointer()s the build driver
\* passes to the initializer
Pointers(dpi_functions) ==
    [i \in 1..Len(dpi_functions) |-> dpi_functions[i].pointer]

\* void dpi_init_callback(void** fns): copies fns[i] into slot i
dpi_init_callback(slots, fns) == [i \in DOMAIN slots |-> fns[i]]

NoBridge == [state |-> "none", fns |-> <<>>, trampolines |-> <<>>,
             slots |-> <<>>, called |-> "", invoked |-> NullPointer]

NewRuntimeValue(source_files, dpi_functions, options) ==
    [source_files |-> source_files, dpi_functions |-> dpi_functions,
     options |-> options, libraries |-> <<>>]

Init ==
    /\ \E c \in Configs :
          runtime = NewRuntimeValue(<<P_main, P_aux>>, c.dpi, c.options)
    /\ fs = EmptyArtifacts
    /\ mtime = [p \in Files |-> 0]
    /\ now = 0
    /\ last = Idle("new", "Ok")
    /\ loadedOk = {}
    /\ dyn = NoDyn
    /\ dlast = NoDynOp
    /\ stat = NoStat
    /\ slast = NoStatOp
    /\ bridge = NoBridge
    /\ search = NoSearch

\* VerilatorRuntime::new (lib.rs 124-154): the old runtime is dropped and a
\* new one is constructed over the same artifact directory
NewRuntime(source_files, dpi_functions, options) ==
    /\ IF \A i \in 1..Len(source_files) : IsFile(source_files[i])
       THEN /\ runtime' = NewRuntimeValue(source_files, dpi_functions, options)
            /\ loadedOk' = {}
            /\ last' = Idle("new", "Ok")
       ELSE /\ UNCHANGED <<runtime, loadedOk>>
            /\ last' = Idle("new", "Err")
    /\ UNCHANGED <<fs, mtime, now, dyn, dlast, stat, slast, bridge, search>>

\* a registered source file is edited
TouchSource(file) ==
    /\ now < MaxTime
    /\ now' = now + 1
    /\ mtime' = [mtime EXCEPT ![file] = now + 1]
    /\ last' = Idle("touch", "Ok")
    /\ UNCHANGED <<runtime, fs, loadedOk, dyn, dlast, stat, slast, bridge, search>>

\* what the environment of one create_model call does: whether rustc
\* succeeds, whether the build has overflow checks, what the simulator does
Env(rustcOk, checked, sim) == [rustcOk |-> rustcOk, checked |-> checked, sim |-> sim]
Envs ==
    { Env(TRUE, FALSE, "ok"), Env(TRUE, TRUE, "ok"), Env(FALSE, FALSE, "ok"),
      Env(TRUE, FALSE, "exec_fail"), Env(TRUE, FALSE, "exit_fail"),
      Env(TRUE, FALSE, "exit_part") }

\* VerilatorRuntime::create_model::<M> (lib.rs 158-224).  On a cache miss
\* the environment decides what rustc and the simulator do.
CreateModel(m) ==
    LET key == CacheKey(m.name, m.path)
        call == Idle("create", "Err")
        valid == [call EXCEPT
                    !.key = key,
                    !.wasLoaded = (key \in loadedOk),
                    !.objAbsent = ~fs.obj_dir,
                    !.srcNewer = SourceNewer(runtime.source_files, fs, mtime)]
        f1 == [fs EXCEPT !.dirs = @ \cup {"."}]
    IN  /\ UNCHANGED <<mtime, now, dyn, dlast, stat, slast, bridge, search>>
        /\ IF NameInvalid(m.name)
           THEN /\ last' = [call EXCEPT !.stage = "name"]
                /\ UNCHANGED <<runtime, fs, loadedOk>>
           ELSE IF ~SourceRegistered(runtime.source_files, m.path)
           THEN /\ last' = [call EXCEPT !.stage = "source"]
                /\ UNCHANGED <<runtime, fs, loadedOk>>
           ELSE IF ~EntryVacant(runtime.libraries, key)
           THEN /\ last' = [valid EXCEPT !.stage = "hit", !.result = "Ok",
                                        !.hit = TRUE,
                                        !.lib = Some(runtime.libraries[key])]
                /\ UNCHANGED <<runtime, fs, loadedOk>>
           ELSE \E env \in Envs :
                LET b == Build(runtime.source_files, runtime.dpi_functions,
                               m.ports, f1, runtime.options, mtime, now, env)
                    done == [valid EXCEPT
                                !.stage = b.stage, !.result = b.result,
                                !.fsChanged = (b.fs # fs),
                                !.dpiRan = b.dpiRan, !.dpiRebuilt = b.dpiRebuilt,
                                !.shim = b.shim, !.sim = b.sim,
                                !.simOk = (b.sim /\ env.sim = "ok")]
                    library == LoadLibrary(runtime.libraries, b.fs)
                IN  /\ fs' = b.fs
                    /\ runtime' = IF Inserts(b.result, b.fs)
                                  THEN [runtime EXCEPT
                                          !.libraries = (key :> library) @@ @]
                                  ELSE runtime
                    /\ IF b.result # "Ok"
                       THEN /\ last' = done
                            /\ UNCHANGED loadedOk
                       ELSE IF ~IsSome(b.fs.lib)
                       THEN /\ last' = [done EXCEPT !.stage = "load",
                                                    !.result = "Err"]
                            /\ UNCHANGED loadedOk
                       ELSE /\ last' = [done EXCEPT !.loaded = TRUE,
                                                    !.lib = Some(library)]
                            /\ loadedOk' = loadedOk \cup {key}

Next ==
    \/ \E c \in Configs : NewRuntime(<<P_main, P_aux>>, c.dpi, c.options)
    \/ NewRuntime(<<P_main, P_gone>>, <<>>, DefaultOptions)
    \/ \E file \in { Cwd \o P_main, Cwd \o P_aux } : TouchSource(file)
    \/ \E m \in Models : CreateModel(m)

Spec == Init /\ [][Next]_vars

----------------------------------------------------------------------------
(* One dynamic model and the operations on it *)

InitDyn ==
    /\ runtime = NewRuntimeValue(<<P_main, P_aux>>, <<>>, DefaultOptions)
    /\ fs = EmptyArtifacts
    /\ mtime = [p \in Files |-> 0]
    /\ now = 0
    /\ last = Idle("new", "Ok")
    /\ loadedOk = {}
    /\ \/ /\ \E mod \in DynModules : dyn = CreateDynModel(N_main, mod)
          /\ stat = NoStat
       \/ /\ \E mod \in StaticModules : stat = CreateStatic(N_main, mod)
          /\ dyn = NoDyn
    /\ dlast = NoDynOp
    /\ slast = NoStatOp
    /\ bridge = NoBridge
    /\ search = NoSearch

\* a pin that hands the value to the setter as soon as the symbol and the
\* port are found, before the width and the direction are checked
PinStoresFirst(port, value) ==
    LET r == PinResult(dyn, port, value)
        reaches == /\ r \in {"Ok", "InvalidPortWidth", "InvalidPortDirection"}
                   /\ port \in DOMAIN dyn.ports
    IN  /\ IF reaches
           THEN \E stored \in Stored(dyn.ports[port].width, value) :
                    dyn' = [dyn EXCEPT !.sim.port[port] = stored]
           ELSE UNCHANGED dyn
        /\ dlast' = [NoDynOp EXCEPT !.op = "pin", !.port = port,
                                    !.value = value, !.result = r,
                                    !.called = reaches,
                                    !.prev = IF r # "Ok" /\ port \in DOMAIN dyn.sim.port
                                             THEN Some(dyn.sim.port[port])
                                             ELSE None]
        /\ UNCHANGED <<rtvars, stvars, bridge, search>>

\* DynamicVerilatedModel::pin (dynamic.rs 270-363)
Pin(port, value) ==
    LET r == PinResult(dyn, port, value)
    IN  /\ IF r = "Ok"
           THEN \E stored \in Stored(dyn.ports[port].width, value) :
                    dyn' = [dyn EXCEPT !.sim.port[port] = stored]
           ELSE UNCHANGED dyn
        /\ dlast' = [NoDynOp EXCEPT !.op = "pin", !.port = port,
                                    !.value = value, !.result = r,
                                    !.called = (r = "Ok"),
                                    !.prev = IF r # "Ok" /\ port \in DOMAIN dyn.sim.port
                                             THEN Some(dyn.sim.port[port])
                                             ELSE None]
        /\ UNCHANGED <<rtvars, stvars, bridge, search>>

\* DynamicVerilatedModel::read (dynamic.rs 176-268)
Read(port) ==
    LET r == ReadResult(dyn, port)
    IN  /\ dlast' = [NoDynOp EXCEPT
                        !.op = "read", !.port = port, !.result = r,
                        !.called = (r = "Ok"),
                        !.out = IF r = "Ok"
                                THEN ReadValue(dyn.ports[port].width,
                                               Getter(dyn.ports[port].width,
                                                      dyn.sim.port[port]))
                                ELSE NotDriven]
        /\ UNCHANGED dyn
        /\ UNCHANGED <<rtvars, stvars, bridge, search>>

\* DynamicVerilatedModel::eval (dynamic.rs 137-139): the simulator's eval.
\* The record of an eval that follows a successful pin keeps the port and
\* the value of that pin.
Eval ==
    /\ dyn' = [dyn EXCEPT !.sim = SimEval(dyn.sim, dyn.wire), !.evald = TRUE]
    /\ dlast' = IF dlast.op = "pin" /\ dlast.result = "Ok"
                 THEN [NoDynOp EXCEPT !.op = "eval", !.result = "Ok",
                                      !.port = dlast.port, !.value = dlast.value]
                 ELSE [NoDynOp EXCEPT !.op = "eval", !.result = "Ok"]
    /\ UNCHANGED <<rtvars, stvars, bridge, search>>

\* the caller assigns an input field of the static model; the type of the
\* field admits the values of FieldValues
StaticSet(port, value) ==
    /\ stat.ports[port].direction = "Input"
    /\ stat' = [stat EXCEPT !.field[port] = value]
    /\ slast' = [NoStatOp EXCEPT !.op = "set", !.port = port, !.result = "Ok",
                                  !.out = Some(value)]
    /\ UNCHANGED <<rtvars, dyn, dlast, bridge, search>>

\* eval of the static model.  The record of an eval that follows an
\* assignment keeps the port and the value of that assignment.
StaticEval ==
    /\ stat' = StaticEvalOf(stat)
    /\ slast' = IF slast.op = "set"
                 THEN [slast EXCEPT !.op = "eval"]
                 ELSE [NoStatOp EXCEPT !.op = "eval", !.result = "Ok"]
    /\ UNCHANGED <<rtvars, dyn, dlast, bridge, search>>

\* the caller reads an output field of the static model: the field itself
\* for a scalar port, value() of the slot for a wide port; conv is the slot
\* converted to a VerilatorValue
StaticValue(port) ==
    /\ stat.ports[port].direction = "Output"
    /\ slast' = [NoStatOp EXCEPT
                    !.op = "value", !.port = port, !.result = "Ok",
                    !.out = Some(IF stat.ports[port].width > 64
                                 THEN WideOutValue(stat.field[port])
                                 ELSE stat.field[port]),
                    !.conv = IF stat.ports[port].width > 64
                             THEN FromWideOut(stat.field[port])
                             ELSE NotDriven]
    /\ UNCHANGED stat
    /\ UNCHANGED <<rtvars, dyn, dlast, bridge, search>>

IsDynamic == dyn.name # <<>>
IsStatic == stat.name # <<>>

NextDyn ==
    \/ IsDynamic /\ \E port \in PortNames, value \in PinValues : Pin(port, value)
    \/ IsDynamic /\ \E port \in PortNames : Read(port)
    \/ IsDynamic /\ Eval
    \/ IsStatic /\ \E port \in DOMAIN stat.ports :
            \E value \in FieldValues(stat.ports[port].width) :
                StaticSet(port, value)
    \/ IsStatic /\ StaticEval
    \/ IsStatic /\ \E port \in DOMAIN stat.ports : StaticValue(port)

SpecDyn == InitDyn /\ [][NextDyn]_vars

----------------------------------------------------------------------------
(* The DPI bridge of one library: construction of the runtime, generation  *)
(* and compilation of the trampolines, load, and calls from the HDL.       *)

InitDpi ==
    /\ runtime = NewRuntimeValue(<<P_main, P_aux>>, <<>>, DefaultOptions)
    /\ fs = EmptyArtifacts
    /\ mtime = [p \in Files |-> 0]
    /\ now = 0
    /\ last = Idle("new", "Ok")
    /\ loadedOk = {}
    /\ dyn = NoDyn
    /\ dlast = NoDynOp
    /\ stat = NoStat
    /\ slast = NoStatOp
    /\ bridge = NoBridge
    /\ search = NoSearch

\* VerilatorRuntime::new with a list of DPI functions
DpiNewRuntime(dpi_functions) ==
    /\ bridge.state = "none"
    /\ bridge' = [NoBridge EXCEPT !.state = "new", !.fns = dpi_functions]
    /\ UNCHANGED <<rtvars, modelvars, search>>

\* the DPI stage and the build: the trampolines are generated with null
\* slots and compiled into the library
DpiBuild ==
    /\ bridge.state = "new"
    /\ LET t == Trampolines(bridge.fns)
       IN  bridge' = [bridge EXCEPT
                        !.trampolines = t,
                        !.slots = [i \in 1..Len(t) |-> NullPointer],
                        !.state = IF TrampolinesCompile(t) THEN "built"
                                  ELSE "failed"]
    /\ UNCHANGED <<rtvars, modelvars, search>>

\* the library is loaded; if DPI functions are registered the initializer
\* is called once with their pointers
DpiLoad ==
    /\ bridge.state = "built"
    /\ bridge' = [bridge EXCEPT
                    !.state = "loaded",
                    !.slots = IF Len(bridge.fns) > 0
                              THEN dpi_init_callback(bridge.slots,
                                                     Pointers(bridge.fns))
                              ELSE bridge.slots]
    /\ UNCHANGED <<rtvars, modelvars, search>>

\* the HDL calls the DPI function of the given name: the trampoline of that
\* name forwards through its slot
DpiCall(name) ==
    /\ bridge.state = "loaded"
    /\ \E i \in 1..Len(bridge.trampolines) :
          /\ bridge.trampolines[i].name = name
          /\ bridge' = [bridge EXCEPT
                          !.called = name,
                          !.invoked = bridge.slots[bridge.trampolines[i].slot]]
    /\ UNCHANGED <<rtvars, modelvars, search>>

NextDpi ==
    \/ \E dpi_functions \in DpiLists : DpiNewRuntime(dpi_functions)
    \/ DpiBuild
    \/ DpiLoad
    \/ \E f \in DpiObjects : DpiCall(f.name)

SpecDpi == InitDpi /\ [][NextDpi]_vars

----------------------------------------------------------------------------
(* Properties of the runtime *)

CreateReturned == last.op = "create" /\ last.key # <<>>

\* C1: once create_model has succeeded for a key, every later create_model
\* for that key on the same runtime, whatever the options, runs no build
\* step (no DPI stage, no shim, no simulator, no load), changes nothing on
\* disk, and binds the model to the library loaded first, which the cache
\* still holds.
C1_CacheHitBuildsNothing ==
    (CreateReturned /\ last.wasLoaded) =>
        /\ ~last.dpiRan /\ ~last.shim /\ ~last.sim /\ ~last.loaded
        /\ ~last.fsChanged
        /\ last.result = "Ok"
        /\ last.key \in DOMAIN runtime.libraries
        /\ last.lib = Some(runtime.libraries[last.key])
        /\ Unwrap(last.lib).id <= Cardinality(loadedOk)

\* a cache hit on a runtime with force_verilator_rebuild set
C1_Witness ==
    /\ CreateReturned /\ last.wasLoaded /\ last.hit /\ last.result = "Ok"
    /\ runtime.options.force_verilator_rebuild

\* C2: two cache entries for the same module name whose source paths
\* canonicalize to the same file are one entry.
C2_OneLibraryPerCanonicalPath ==
    \A k1, k2 \in DOMAIN runtime.libraries :
        (k1[1] = k2[1] /\ Canonicalize(k1[2]) = Canonicalize(k2[2])) => k1 = k2

CacheMiss == CreateReturned /\ ~last.hit

RebuildCondition ==
    \/ runtime.options.force_verilator_rebuild
    \/ last.dpiRebuilt
    \/ last.objAbsent
    \/ last.srcNewer

DataOut(image, x) ==
    IF \E i \in 1..Len(image.defines) : image.defines[i] = "INVERT_OUTPUT"
    THEN (2^8 - 1) - x ELSE x

\* C4: a model created by a runtime constructed with defines =
\* ["INVERT_OUTPUT"] outputs the bitwise inverse of its input, also when the
\* artifact directory holds an earlier build made without the define.
C4_DefinesTakeEffect ==
    (/\ CreateReturned /\ last.result = "Ok"
     /\ runtime.options.defines = <<"INVERT_OUTPUT">>) =>
        \A x \in {0, 173} : DataOut(Unwrap(last.lib).image, x) = (2^8 - 1) - x

\* create_model::<m> gets past validation and finds no cache entry
Miss(m) ==
    /\ ~NameInvalid(m.name)
    /\ SourceRegistered(runtime.source_files, m.path)
    /\ CacheKey(m.name, m.path) \notin DOMAIN runtime.libraries

\* C5: on a cache miss the DPI stage rebuilds exactly when no stored copy of
\* the DPI source text exists or the current text, the C wrapper text as
\* well as the host-side text, differs from the stored copy.
C5_DpiRebuildsIffTextChanged ==
    [][\A m \in Models :
        (last'.op = "create" /\ Miss(m) /\ CreateModel(m)) =>
            (last'.dpiRan <=>
                \/ ~IsSome(fs.dpi_rs) \/ ~IsSome(fs.wrappers_c)
                \/ Unwrap(fs.dpi_rs) # RustFileCode(runtime.dpi_functions)
                \/ Unwrap(fs.wrappers_c) # CFileCode(runtime.dpi_functions))]_vars

\* C6: a failed simulator invocation makes create_model return an error
\* without a model, a load or a cache entry; the cache holds a key only if a
\* build and load for that key succeeded.
C6_FailedBuildNotCached ==
    /\ \A k \in DOMAIN runtime.libraries : k \in loadedOk
    /\ (CreateReturned /\ last.sim /\ ~last.simOk) =>
            /\ last.result = "Err"
            /\ ~last.loaded
            /\ last.lib = None
            /\ last.key \notin DOMAIN runtime.libraries

\* the simulator failed while an older library file was on disk
C6_Witness ==
    /\ CreateReturned /\ last.sim /\ ~last.simOk /\ last.result = "Err"
    /\ IsSome(fs.lib)

----------------------------------------------------------------------------
(* Properties of the dynamic model *)

Declared(port) == port \in DOMAIN dyn.ports

PinReturned == dlast.op = "pin" /\ Declared(dlast.port)

\* C7: a pin on a port declared Output that returns, returns
\* InvalidPortDirection (not NoSuchPort, not InvalidPortWidth), and read on
\* a port declared Input returns InvalidPortDirection.
C7_WrongDirectionIsReported ==
    /\ (PinReturned /\ dlast.result # "Panic"
            /\ dyn.ports[dlast.port].direction = "Output") =>
            dlast.result = "InvalidPortDirection"
    /\ (dlast.op = "read" /\ Declared(dlast.port)
            /\ dyn.ports[dlast.port].direction = "Input") =>
            dlast.result = "InvalidPortDirection"

ScalarPin ==
    /\ PinReturned
    /\ dyn.ports[dlast.port].direction \in {"Input", "Inout"}
    /\ dyn.ports[dlast.port].width <= 64
    /\ dlast.value.tag \in ScalarTags

\* C8: for a declared Input or Inout port of width w <= 64 and a scalar
\* value of transport width W, pin calls the setter, and returns Ok, if and
\* only if w <= W; when w > W it returns InvalidPortWidth and the port keeps
\* the value it had.
C8_ScalarPinFitsWidth ==
    ScalarPin =>
        LET w == dyn.ports[dlast.port].width
            W == Width(dlast.value)
        IN  /\ dlast.called <=> w <= W
            /\ w <= W => (dlast.result = "Ok"
                            /\ dyn.sim.port[dlast.port] = dlast.value.v[1])
            /\ w > W => (dlast.result = "InvalidPortWidth"
                            /\ dyn.sim.port[dlast.port] = Unwrap(dlast.prev))

\* a 16-bit scalar pinned to a 16-bit Inout port
C8_Witness ==
    /\ ScalarPin /\ dlast.value.tag = "SData"
    /\ dyn.ports[dlast.port].width = 16
    /\ dyn.ports[dlast.port].direction = "Inout"
    /\ dlast.result = "Ok" /\ dlast.called

\* C9: pin of a word slice is accepted only when the port is wider than 64
\* bits and the slice has exactly ceil(width / 32) words; otherwise it is
\* rejected with an error and the setter is not called.
C9_WidePinChecksLength ==
    (PinReturned /\ dlast.value.tag = "WDataInP") =>
        LET w == dyn.ports[dlast.port].width
            fits == w > 64 /\ Len(dlast.value.v) = WordCount(w)
        IN  /\ dlast.result = "Ok" => fits
            /\ ~fits => (~dlast.called
                         /\ dlast.result \in {"NoSuchPort", "InvalidPortWidth",
                                              "InvalidPortDirection"})

\* C10: pin returns Ok or an error for every port name and every value
\* variant, and create_model returns Ok or an error for every port list:
\* neither panics.
C10_NeverPanics ==
    /\ dlast.result # "Panic"
    /\ last.result # "Panic"

ReadReturned == dlast.op = "read" /\ Declared(dlast.port)

AllZero(words) == \A i \in 1..Len(words) : words[i] = 0

OutputsOf(ports) == { q \in DOMAIN ports : ports[q].direction = "Output" }

\* C12: the outputs of a model change only on eval.  Until the first eval
\* every output holds zero (a wide one ceil(w / 32) zero words), in the
\* simulator a dynamic read reads and in the output fields of a static
\* model, whatever has been pinned; and no pin or read of a dynamic model, no
\* assignment or access of a field of a static model, changes what an
\* output reads as.
C12_OutputsChangeOnlyOnEval ==
    [][/\ (IsDynamic /\ ~dyn'.evald) =>
            \A q \in OutputsOf(dyn.ports) :
                dyn'.sim.port[q] = ZeroOf(dyn.ports[q].width)
       /\ (IsStatic /\ ~stat'.evald) =>
            \A q \in OutputsOf(stat.ports) :
                stat'.field[q] = ZeroOf(stat.ports[q].width)
       /\ (IsDynamic /\ dlast'.op \in {"pin", "read"}) =>
            \A q \in OutputsOf(dyn.ports) :
                dyn'.sim.port[q] = dyn.sim.port[q]
       /\ (IsStatic /\ slast'.op \in {"set", "value"}) =>
            \A q \in OutputsOf(stat.ports) :
                stat'.field[q] = stat.field[q]]_vars

\* before the first eval a scalar output reads as zero although the input
\* it is wired to has been pinned to 1
C12_Witness ==
    /\ ReadReturned /\ dlast.result = "Ok" /\ ~dyn.evald
    /\ dlast.port \in DOMAIN dyn.wire
    /\ dyn.ports[dlast.port].width <= 64
    /\ dlast.out.v = <<0>>
    /\ dyn.sim.port[dyn.wire[dlast.port]] = 1

\* the value fits the port: a scalar of a class at least as wide as the
\* port, or a slice of exactly ceil(width / 32) words for a wide port
Fits(value, width) ==
    IF width <= 64 THEN value.tag \in ScalarTags /\ width <= Width(value)
    ELSE value.tag = "WDataInP" /\ Len(value.v) = (width + 31) \div 32

ReadOf(d, port) ==
    ReadValue(d.ports[port].width, Getter(d.ports[port].width, d.sim.port[port]))

\* the simulator's port holds the words of the pinned value
Holds(d, port, value) ==
    d.sim.port[port] = IF d.ports[port].width > 64
                       THEN SubSeq(value.v, 1, WordCount(d.ports[port].width))
                       ELSE value.v[1]

WideOutputs == { q \in DOMAIN stat.ports :
                    stat.ports[q].direction = "Output" /\ stat.ports[q].width > 64 }

C16_UninitializedConvertsToNotDriven ==
    (IsStatic /\ slast.op = "value" /\ slast.port \in WideOutputs) =>
        IF is_initialized(stat)
        THEN slast.conv = Value("WDataOutP", stat.field[slast.port])
        ELSE slast.conv = NotDriven

----------------------------------------------------------------------------
(* Properties of the DPI bridge *)

----------------------------------------------------------------------------
(* Properties that compare the parts of the library *)

\* C18: for the module name M and every port name P of a model, the names
\* the bindings resolve (new_top, top_eval, delete_top, pin_port, read_port
\* and the names read and pin format) are exactly the names the shim
\* defines: ffi_new_V<M>, ffi_V<M>_eval, ffi_delete_V<M>, ffi_V<M>_pin_<P>,
\* ffi_V<M>_read_<P>.
C18_NamesAgree ==
    IsDynamic =>
        /\ new_top(dyn.name) = SymNew(dyn.name)
        /\ top_eval(dyn.name) = SymEval(dyn.name)
        /\ delete_top(dyn.name) = SymDelete(dyn.name)
        /\ { new_top(dyn.name), top_eval(dyn.name), delete_top(dyn.name) }
              \subseteq dyn.symbols
        /\ \A P \in DOMAIN dyn.ports :
              /\ pin_port(dyn.name, P) = SymPin(dyn.name, P)
              /\ PinValueSymbol(dyn.name, P) = SymPin(dyn.name, P)
              /\ read_port(dyn.name, P) = SymRead(dyn.name, P)
              /\ ReadValueSymbol(dyn.name, P) = SymRead(dyn.name, P)

\* the class letter of a value tag
ClassLetter(tag) ==
    CASE tag = "CData" -> "C"
      [] tag = "SData" -> "S"
      [] tag = "IData" -> "I"
      [] tag = "QData" -> "Q"
      [] OTHER -> "W"

\* C19: for the width w of every port of a model, shim generation, the
\* dispatch of read and the width validation of pin give w the same class
\* (C for w <= 8, S for w <= 16, I for w <= 32, Q for w <= 64, W above):
\* the shim's class is the class read dispatches, pin admits a value of
\* that class, and pin admits a word slice only for a port of class W.
C19_ClassificationAgrees ==
    IsDynamic =>
        \A P \in DOMAIN dyn.ports :
            LET w == dyn.ports[P].width
            IN  /\ ShimClass(w) = ClassLetter(ClassOf(w))
                /\ w <= PinHigh(IF w > 64 THEN "WDataInP" ELSE ClassOf(w))
                /\ w <= PinHigh("WDataInP") => ClassOf(w) = "WDataOutP"

----------------------------------------------------------------------------
(* Properties of create_model's validation *)

\* a port list with a port whose msb is below its lsb, or with two ports of
\* one name
PortsInvalid(ports) ==
    \/ \E i \in 1..Len(ports) : ports[i].msb < ports[i].lsb
    \/ \E i, j \in 1..Len(ports) : i # j /\ ports[i].name = ports[j].name

\* C20: create_model with a port list that has a port with msb < lsb, or
\* two ports of the same name, returns an error before the cache lookup and
\* before any build step: no cached library is returned, the DPI stage,
\* the shim generator and the simulator do not run, and the artifact
\* directory and the cache are unchanged.
C20_InvalidPortsRejectedFirst ==
    [][ \A m \in Models :
            (PortsInvalid(m.ports) /\ ~NameInvalid(m.name)
                /\ SourceRegistered(runtime.source_files, m.path)
                /\ CreateModel(m))
            => /\ last'.result = "Err"
               /\ ~last'.hit /\ ~last'.dpiRan /\ ~last'.shim /\ ~last'.sim
               /\ fs' = fs
               /\ runtime'.libraries = runtime.libraries
      ]_vars

\* the name contains a backslash or a space
BackslashOrSpace(name) == \E c \in {"\\", " "} : \E i \in 1..Len(name) : name[i] = c

\* C21: create_model for a module whose name contains a backslash or a
\* space returns an error as its first step, whatever the source path and
\* the ports are: no artifact directory is created, no build step runs, and
\* the cache is unchanged.
C21_InvalidNameRejectedFirst ==
    [][ \A m \in Models :
            (BackslashOrSpace(m.name) /\ CreateModel(m))
            => /\ last'.result = "Err" /\ last'.stage = "name"
               /\ ~last'.hit /\ ~last'.dpiRan /\ ~last'.shim /\ ~last'.sim
               /\ fs' = fs
               /\ runtime' = runtime
      ]_vars

\* a create_model has been refused for its name by a runtime that holds a
\* cached library
C21_Witness ==
    /\ last.op = "create" /\ last.stage = "name" /\ last.result = "Err"
    /\ DOMAIN runtime.libraries # {}

\* the path canonicalizes to the canonical path of a registered source file
CanonicallyRegistered(path) ==
    /\ Canonicalize(path) # None
    /\ \E i \in 1..Len(runtime.source_files) :
          Canonicalize(runtime.source_files[i]) = Canonicalize(path)

\* C22: create_model for a module whose source path does not canonicalize
\* to the canonical path of a registered source file (a path that cannot
\* be canonicalized included) returns an error, creates no artifact
\* directory, runs no build step and leaves the cache unchanged; a path
\* that canonicalizes to a registered file passes the check whatever its
\* spelling.
C22_UnregisteredSourceRejected ==
    [][ \A m \in Models :
            /\ (~CanonicallyRegistered(m.path) /\ CreateModel(m))
               => /\ last'.result = "Err"
                  /\ ~last'.hit /\ ~last'.dpiRan /\ ~last'.shim /\ ~last'.sim
                  /\ fs' = fs
                  /\ runtime' = runtime
            /\ (last'.stage \in {"name", "source"}
                    /\ CanonicallyRegistered(m.path) /\ ~BackslashOrSpace(m.name))
               => ~CreateModel(m)
      ]_vars

\* a create_model has been refused for its source path while the artifact
\* directory holds a build
C22_Witness ==
    /\ last.op = "create" /\ last.stage = "source" /\ last.result = "Err"
    /\ fs.obj_dir

----------------------------------------------------------------------------
(* Properties of the handles *)

\* the library handles the runtime holds loaded
Loaded(rt) == { rt.libraries[k] : k \in DOMAIN rt.libraries }

\* C23: a model handle refers to a library that is still loaded: the library
\* of the model that create_model has just returned stays loaded in the
\* runtime across every step the caller can take with the model in hand;
\* it is not unloaded or replaced, and the runtime that owns it is not
\* dropped.
C23_HandleLibraryStaysLoaded ==
    [][ (last.op = "create" /\ last.result = "Ok" /\ IsSome(last.lib))
        => Unwrap(last.lib) \in Loaded(runtime') ]_vars

----------------------------------------------------------------------------
(* Properties of the errors of the dynamic model *)

\* C24: a dynamic read or pin that names a port that was not declared for
\* the model returns NoSuchPort and calls no accessor of the simulator.
C24_UndeclaredPortIsNoSuchPort ==
    (IsDynamic /\ dlast.op \in {"pin", "read"} /\ ~Declared(dlast.port))
    => /\ dlast.result = "NoSuchPort"
       /\ ~dlast.called

----------------------------------------------------------------------------
(* Properties of the shim *)

\* C25: the shim of a model has the setter ffi_V<M>_pin_<p> exactly for the
\* ports declared Input or Inout and the getter ffi_V<M>_read_<p> exactly
\* for the ports declared Output or Inout, so every declared port has at
\* least one accessor.
C25_AccessorsFollowDirection ==
    IsDynamic =>
        \A p \in DOMAIN dyn.ports :
            /\ SymPin(dyn.name, p) \in dyn.symbols
                  <=> dyn.ports[p].direction \in {"Input", "Inout"}
            /\ SymRead(dyn.name, p) \in dyn.symbols
                  <=> dyn.ports[p].direction \in {"Output", "Inout"}
            /\ \/ SymPin(dyn.name, p) \in dyn.symbols
               \/ SymRead(dyn.name, p) \in dyn.symbols

\* a model with an Input, an Output and an Inout port whose Inout port has
\* been pinned and then read through its two accessors
C25_Witness ==
    /\ IsDynamic
    /\ { dyn.ports[p].direction : p \in DOMAIN dyn.ports } = {"Input", "Output", "Inout"}
    /\ dlast.op = "read" /\ dlast.result = "Ok" /\ dlast.called
    /\ Declared(dlast.port) /\ dyn.ports[dlast.port].direction = "Inout"
    /\ dyn.sim.port[dlast.port] = 1

----------------------------------------------------------------------------
(* Properties of the rebuild decisions *)

\* the last create_model missed the cache, got past the DPI stage and
\* build returned the library path without invoking the simulator
SkippedSimulator ==
    /\ last.op = "create" /\ last.key # <<>> /\ ~last.hit
    /\ last.stage \in {"skip", "load"} /\ ~last.sim

\* C26: whenever build skips the simulator and returns the library path as
\* up to date, the library file exists (it was left by an earlier
\* successful invocation of the simulator); so after a failed invocation,
\* or with an obj_dir/ that holds no regular file, the next create_model
\* invokes the simulator again.
C26_SkipOnlyWithLibrary ==
    SkippedSimulator => IsSome(fs.lib)


\* C27: a failed DPI build is not recorded as done: the stored copy of the
\* DPI source text equals the current text of the runtime's DPI functions
\* only if the DPI object was built from that text, so the create_model
\* after a failed compilation runs the DPI build again.
C27_StoredTextMeansBuilt ==
    DpiUnchanged(fs.dpi_rs, RustFileCode(runtime.dpi_functions))
        => fs.dpi_o = fs.dpi_rs


\* C28: every model created successfully with port list L gets a library
\* that exposes the accessor symbols of every port in L, also when the
\* artifact directory holds an up-to-date build of the same module made
\* with another port list.
C28_LibraryExposesDeclaredPorts ==
    [][ \A m \in Models :
            (last'.result = "Ok" /\ CreateModel(m))
            => ShimSymbols(m.name, m.ports)
                 \subseteq ShimSymbols(m.name, Unwrap(last'.lib).image.ports) ]_vars


----------------------------------------------------------------------------
(* Frame of the dynamic operations *)

DynErrors == {"NoSuchPort", "InvalidPortWidth", "InvalidPortDirection"}

\* C29: a dynamic pin or read that returns NoSuchPort, InvalidPortWidth or
\* InvalidPortDirection has not called the setter or getter and leaves the
\* model as it was; pin, read and eval never change the port table, the
\* name, the resolved symbols or the design behind the model.
C29_ErrorsLeaveModelUnchanged ==
    [][ /\ (dlast'.op \in {"pin", "read"} /\ dlast'.result \in DynErrors)
            => (~dlast'.called /\ dyn' = dyn)
        /\ (dlast'.op \in {"pin", "read", "eval"})
            => /\ dyn'.ports = dyn.ports /\ dyn'.name = dyn.name
               /\ dyn'.symbols = dyn.symbols /\ dyn'.wire = dyn.wire ]_vars

\* a pin refused for its width on a port that holds a driven value, which
\* the port still holds
C29_Witness ==
    /\ IsDynamic /\ dlast.op = "pin" /\ dlast.result = "InvalidPortWidth"
    /\ ~dlast.called
    /\ dlast.prev = Some(dyn.sim.port[dlast.port])
    /\ dyn.sim.port[dlast.port] # ZeroOf(dyn.ports[dlast.port].width)


----------------------------------------------------------------------------
(* The searches on their own.  A search that is in its loop takes its     *)
(* next turn: nothing else runs in the function.                           *)

InitSearch ==
    /\ runtime = NewRuntimeValue(<<P_main, P_aux>>, <<>>, DefaultOptions)
    /\ fs = EmptyArtifacts
    /\ mtime = [p \in Files |-> 0]
    /\ now = 0
    /\ last = Idle("new", "Ok")
    /\ loadedOk = {}
    /\ dyn = NoDyn
    /\ dlast = NoDynOp
    /\ stat = NoStat
    /\ slast = NoStatOp
    /\ bridge = NoBridge
    /\ search = NoSearch

NextSearch ==
    \/ \E fn \in SearchFns, dirs \in ProjectDirs, start \in Directories :
            SearchCall(fn, dirs, start)
    \/ SearchStep

SpecSearch == InitSearch /\ [][NextSearch]_vars /\ WF_vars(SearchStep)

\* C30: the upward search terminates for every start directory.
C30_SearchTerminates == (search.pc = "loop") ~> (search.pc = "done")

====
